---------------------------- MODULE Spec2Model ----------------------------
(***************************************************************************)
(* Agent-Pay AI agent service (src/ai/agent.py): the payment orchestration *)
(* state machine.  The Flask development server handles each HTTP request  *)
(* in a thread of its own, so a handler is modelled as a sequence of       *)
(* steps: a step runs the handler's code from one blocking point (a remote *)
(* call to the Executor, or console output between a read of shared state  *)
(* and the write that depends on it) to the next.                          *)
(*                                                                         *)
(* Amounts and balances are decimals counted in tenths of a USDC, so the   *)
(* 0.1 USDC gas buffer of check_backend_balance is 1; the guard adds and   *)
(* compares them as the floats the code converts them to.                  *)
(***************************************************************************)
EXTENDS Integers, FiniteSets, Sequences, TLC

\* ------------------------------------------------------------------ bounds
\* Request threads the server runs at the same time (Spec, SpecOrder).
NThreads == 2
\* Requests of a sequential run (SpecSeq), numbered in arrival order.
NRequests == 4
\* The largest amount the solvency guard is tried on, in tenths of a USDC.
MaxTenths == 12

\* ------------------------------------------------------- program constants
\* agent.py:91  total_needed = float(amount_needed) + 0.1   (in tenths)
ReserveBuffer == 1
\* agent.py:163  amount = payload.get('amount', '1')        (in tenths)
DefaultAmount == 10

\* --------------------------------------------------------------- the inputs
Ids == {"INV-1", "INV-7"}
\* data.get('invoiceId') of a body without the field
NoId == ""
IdInputs == Ids \cup {NoId}
\* The ids transcribe_audio draws from: INV-VOICE-500 .. INV-VOICE-999.
VoiceIds == {"INV-VOICE-500"}
Amounts == {DefaultAmount}
Null == "null"

\* What GET /api/check-balance can answer: a balance, or no usable answer
\* (a status other than 200, or a connection error).
BalanceFailed == -1
BalanceResponses == {BalanceFailed, 10, 11}

NoBody == [transactionHash |-> Null, paidAt |-> Null]
Answer(kind) == [kind |-> kind, body |-> NoBody]
NoAnswer == Answer("none")

\* What POST /api/create-on-chain can answer: 201, an error naming
\* INSUFFICIENT_BALANCE, another error, or nothing (connection error).
CreateResponses ==
    { Answer(k) : k \in {"created", "insufficient_balance", "error", "exception"} }

\* What POST /api/trigger-payment can answer: 200 with a body, another status,
\* or nothing (connection error).  A 200 body may lack the fields or not parse.
TriggerResponses ==
    { [kind |-> "ok", body |-> [transactionHash |-> "0xh1", paidAt |-> "t1"]],
      [kind |-> "ok", body |-> NoBody],
      Answer("ok_unparseable"), Answer("error"), Answer("exception") }

\* ------------------------------------------------------------------- state
VARIABLES
    db,         \* INVOICE_DB: invoice id -> record, a partial map (a dict)
    registry,   \* shipping_confirmation_registry
    disk,       \* the content of DB_FILE: the [id, record] pairs last written
    th,         \* the request threads: position, locals and the response
    fs          \* the file system under DB_FILE: "ok" takes every write,
                \* "down" refuses the writes to come, "lost" has refused one

vars == <<db, registry, disk, th, fs>>

Threads == DOMAIN th

Idle == [pc |-> "idle", op |-> "-", id |-> NoId, amt |-> 0, cur |-> "-",
         bal |-> BalanceFailed, resp |-> NoAnswer, code |-> 0, msg |-> "-"]

\* payment_details of create_payment_logic
NewInvoice(amount) ==
    [amount |-> amount, status |-> "Pending",
     transactionHash |-> Null, paidAt |-> Null, invoiceId |-> Null]

\* db.get(invoice_id, {}).get('status')
StatusOf(d, id) == IF id \in DOMAIN d THEN d[id].status ELSE "None"

Insert(d, id, rec) == [i \in DOMAIN d \cup {id} |-> IF i = id THEN rec ELSE d[i]]
Delete(d, id) == [i \in DOMAIN d \ {id} |-> d[i]]

EmptyStore == [i \in {} |-> NewInvoice(0)]

\* save_database, line 74: json.dump(list(INVOICE_DB.items())), the whole map
\* rewritten as [id, record] pairs.
save_database(d) == { <<i, d[i]>> : i \in DOMAIN d }

\* What DB_FILE holds when a write stopped after open(DB_FILE, 'w') truncated
\* it: nothing json.load accepts.
Corrupt == { <<"truncated">> }

\* load_database, lines 58-68: dict(json.load(f)) of the pairs; a file that is
\* missing or does not parse starts the map fresh.
load_database(file) ==
    IF file = Corrupt
    THEN EmptyStore
    ELSE [i \in { p[1] : p \in file } |-> (CHOOSE p \in file : p[1] = i)[2]]

\* save_database as a step, lines 72-76: the write succeeds, or it raises (at
\* the open, the file as it was; after it, the file truncated), which is
\* printed and not passed on.
Persist(d) ==
    /\ disk' \in (IF fs = "ok" THEN {save_database(d)} ELSE {disk, Corrupt})
    /\ fs' = IF fs = "ok" THEN "ok" ELSE "lost"

NoPersist == UNCHANGED <<disk, fs>>

\* GET /api/payment-status
get_payment_status == DOMAIN db

Init ==
    /\ db = EmptyStore
    /\ registry = {}
    /\ disk = save_database(db)
    /\ th = [t \in 1..NThreads |-> Idle]
    /\ fs = "ok"

\* ------------------------------------------------------------ the responses
\* A handler's return: the thread keeps its locals and the response until the
\* response is delivered.
Respond(t, code, msg) ==
    th' = [th EXCEPT ![t].pc = "done", ![t].code = code, ![t].msg = msg]

RespondTo(t, response, code, msg) ==
    th' = [th EXCEPT ![t].pc = "done", ![t].resp = response,
                     ![t].code = code, ![t].msg = msg]

\* An exception no handler catches: Flask answers 500.
Crash(t, response) == RespondTo(t, response, 500, "unhandled_exception")

\* ------------------------------------------------------------------ float
\* Python's float is the IEEE-754 double.  The double nearest to the decimal
\* k/10 is written [k, o]: its value is k/10 + o * w, with w = 2^-56 / 10, so
\* o is the rounding error of the decimal in units of w (every double from
\* 0.1 up is a multiple of 2^-56 = 10 w).  DoubleErr[k] is that error and
\* DoubleOdd[k] the last bit of the mantissa, for k/10 = 0.1 .. 2.5.
DoubleErr ==
    << 4, 8, -8, 16, 0, -16, -32, 32, 16, 0,
       64, -32, 32, -64, 0, 64, -32, 32, -64, 0,
       64, 128, -128, -64, 0 >>

DoubleOdd ==
    << 0, 0, 1, 0, 0, 1, 0, 0, 1, 0,
       0, 1, 1, 0, 0, 0, 1, 1, 0, 0,
       1, 0, 0, 1, 0 >>

\* float(x) of the decimal x = k/10
DoubleOf(k) == [k |-> k, o |-> IF k = 0 THEN 0 ELSE DoubleErr[k]]

\* The distance between neighbouring doubles around k/10, in units of w:
\* 2^-56 in [1/16, 1/8), doubling with every power of two.
DoubleUlp(k) ==
    IF k < 2 THEN 10 ELSE IF k < 3 THEN 20 ELSE IF k < 5 THEN 40
    ELSE IF k < 10 THEN 80 ELSE IF k < 20 THEN 160 ELSE 320

\* k/10 is a power of two: the doubles below it are half as far apart.
BinadeStart(k) == k \in {5, 10, 20}

\* The double nearest to k/10 + o * w, ties to the even mantissa.
DoubleRound(k, o) ==
    LET base == DoubleOf(k).o
        d == o - base
        g == IF BinadeStart(k) /\ d < 0 THEN DoubleUlp(k) \div 2 ELSE DoubleUlp(k)
        q == (2 * d + g) \div (2 * g)
        tie == (2 * d + g) % (2 * g) = 0
        j == IF tie /\ (DoubleOdd[k] + q) % 2 = 1 THEN q - 1 ELSE q
    IN  [k |-> k, o |-> base + j * g]

\* x + y and x < y of two floats
DoubleAdd(x, y) == DoubleRound(x.k + y.k, x.o + y.o)

DoubleLess(x, y) == x.k < y.k \/ (x.k = y.k /\ x.o < y.o)

\* ----------------------------------------------------------- SolvencyGuard
\* check_backend_balance(amount_needed), given the Executor's answer:
\* lines 88-97 compare floats.
check_backend_balance(amount_needed, response) ==
    IF response = BalanceFailed
    THEN [solvent |-> FALSE, balance |-> 0]
    ELSE LET current_balance == DoubleOf(response)
             total_needed == DoubleAdd(DoubleOf(amount_needed), DoubleOf(ReserveBuffer))
         IN  IF DoubleLess(current_balance, total_needed)
             THEN [solvent |-> FALSE, balance |-> response]
             ELSE [solvent |-> TRUE, balance |-> response]

\* ------------------------------------------------- POST /api/create-payment
\* create_payment_logic, lines 160-170: validation and the duplicate check.
CreateRejects(d, id) == id \in DOMAIN d

CreateStart(t, id, amount) ==
    /\ th[t].pc = "idle"
    /\ LET me == [Idle EXCEPT !.op = "create", !.id = id, !.amt = amount] IN
       th' = [th EXCEPT ![t] =
                IF id = NoId
                THEN [me EXCEPT !.pc = "done", !.code = 400, !.msg = "id_required"]
                ELSE IF CreateRejects(db, id)
                THEN [me EXCEPT !.pc = "done", !.code = 409, !.msg = "exists",
                                !.cur = db[id].status]
                ELSE [me EXCEPT !.pc = "c_balance"]]
    /\ UNCHANGED <<db, registry, disk, fs>>

\* Lines 173-190: the pre-check answers; a solvent request inserts the record
\* and saves.
\* A plausible slip: the record is inserted before the pre-check is looked at.
CreateInsertUnchecked(d, id, amount, solvent) == Insert(d, id, NewInvoice(amount))

CreateInsert(d, id, amount, solvent) ==
    IF solvent THEN Insert(d, id, NewInvoice(amount)) ELSE d

CreateBalanceGiven(t, response) ==
    /\ th[t].pc = "c_balance"
    /\ LET chk == check_backend_balance(th[t].amt, response) IN
         /\ db' = CreateInsert(db, th[t].id, th[t].amt, chk.solvent)
         /\ IF chk.solvent THEN Persist(db') ELSE NoPersist
         /\ th' = [th EXCEPT ![t] =
                     IF chk.solvent
                     THEN [@ EXCEPT !.pc = "c_onchain", !.bal = response]
                     ELSE [@ EXCEPT !.pc = "done", !.bal = response,
                                    !.code = 402, !.msg = "insufficient_funds"]]
    /\ UNCHANGED registry

CreateBalance(t) == \E response \in BalanceResponses : CreateBalanceGiven(t, response)

\* Lines 193-216: the Executor answers the create call.  Every answer but 201
\* ends in "del db[invoice_id]"; when the record is gone the KeyError leaves
\* the handler (the del of line 208 raises into the except of line 212, whose
\* own del raises again); in the voice flow the except of line 147 catches it
\* and answers 500.
\* A plausible slip: the failure path answers without the del.
CreateRollbackKeep(d, id) == d

CreateRollback(d, id) == Delete(d, id)

CreateFailure(response) ==
    IF response.kind = "insufficient_balance" THEN "insufficient_funds_recheck"
    ELSE IF response.kind = "error" THEN "on_chain_failure"
    ELSE "executor_unreachable"

\* transcribe_audio, lines 142-143: response_dict['details'] of a 201 is the
\* dict create_payment_logic stored at line 188, so the assignment of line 143
\* adds the field to the stored record (when the record is still in the map);
\* no save_database follows.
VoiceDetails(d, me) ==
    IF me.op = "voice" /\ me.id \in DOMAIN d
    THEN [d EXCEPT ![me.id].invoiceId = me.id]
    ELSE d

CreateOnChain(t) ==
    /\ th[t].pc = "c_onchain"
    /\ \E response \in CreateResponses :
         IF response.kind = "created"
         THEN /\ RespondTo(t, response, 201, "created")
              /\ db' = VoiceDetails(db, th[t])
              /\ UNCHANGED <<disk, fs>>
         ELSE IF th[t].id \in DOMAIN db
         THEN /\ db' = CreateRollback(db, th[t].id)
              /\ Persist(db')
              /\ RespondTo(t, response, 500, CreateFailure(response))
         ELSE /\ IF th[t].op = "voice"
                 THEN RespondTo(t, response, 500, "unexpected_error")
                 ELSE Crash(t, response)
              /\ UNCHANGED <<db, disk, fs>>
    /\ UNCHANGED registry

\* --------------------------------------------- shipping_confirmation_registry
\* Line 267: shipping_confirmation_registry.add(invoice_id), a set-add.
\* A plausible slip: the registry remembers the last id signalled only.
RegistryAddLast(reg, id) == {id}

RegistryAdd(reg, id) == reg \cup {id}

\* ---------------------------------------------------- POST /api/transcribe
\* transcribe_audio, lines 113-119: a request without an audio file is
\* answered 400; otherwise the handler goes on to draw an id.
VoiceStart(t, audio) ==
    /\ th[t].pc = "idle"
    /\ LET me == [Idle EXCEPT !.op = "voice", !.amt = DefaultAmount] IN
       th' = [th EXCEPT ![t] =
                IF ~audio
                THEN [me EXCEPT !.pc = "done", !.code = 400, !.msg = "no_audio"]
                ELSE [me EXCEPT !.pc = "v_draw"]]
    /\ UNCHANGED <<db, registry, disk, fs>>

\* Lines 123-129: random.randint draws an id; an id that is in the store is
\* drawn again (the handler stays in the loop), one that is not leaves the
\* loop.
VoiceDraw(t) ==
    /\ th[t].pc = "v_draw"
    /\ \E id \in VoiceIds :
         th' = IF id \in DOMAIN db THEN th
               ELSE [th EXCEPT ![t].pc = "v_create", ![t].id = id]
    /\ UNCHANGED <<db, registry, disk, fs>>

\* Lines 131-140 and 160-170: after the print of line 131 the id is handed
\* to create_payment_logic with the amount "1", which looks the id up again
\* (line 168).
VoiceCreate(t) ==
    /\ th[t].pc = "v_create"
    /\ th' = [th EXCEPT ![t] =
                IF CreateRejects(db, th[t].id)
                THEN [@ EXCEPT !.pc = "done", !.code = 409, !.msg = "exists",
                               !.cur = db[th[t].id].status]
                ELSE [@ EXCEPT !.pc = "c_balance"]]
    /\ UNCHANGED <<db, registry, disk, fs>>

\* ------------------------------------------------ POST /api/process-invoice
\* process_invoice, lines 226-242.
\* A plausible slip: the status is set to MONITORING whatever it was.
BeginMonitoringAlways(d, id) == [d EXCEPT ![id].status = "MONITORING"]

BeginMonitoring(d, id) ==
    IF d[id].status = "Pending" THEN [d EXCEPT ![id].status = "MONITORING"] ELSE d

MonitorStart(t, id) ==
    /\ th[t].pc = "idle"
    /\ LET me == [Idle EXCEPT !.op = "monitor", !.id = id] IN
       IF id = NoId
       THEN /\ th' = [th EXCEPT ![t] = [me EXCEPT !.pc = "done", !.code = 400,
                                                  !.msg = "id_required"]]
            /\ UNCHANGED <<db, disk, fs>>
       ELSE IF id \notin DOMAIN db
       THEN /\ th' = [th EXCEPT ![t] = [me EXCEPT !.pc = "done", !.code = 404,
                                                  !.msg = "not_found"]]
            /\ UNCHANGED <<db, disk, fs>>
       ELSE /\ db' = BeginMonitoring(db, id)
            /\ IF db' = db THEN NoPersist ELSE Persist(db')
            /\ th' = [th EXCEPT ![t] = [me EXCEPT !.pc = "m_registry"]]
    /\ UNCHANGED registry

\* Lines 244-253: the registry is read; a pre-confirmed id calls
\* trigger_payment, whose line 267 adds the id again.
\* A plausible slip: process_invoice without the registry check.
PreConfirmedNever(reg, id) == FALSE

PreConfirmed(reg, id) == id \in reg

MonitorRegistry(t) ==
    /\ th[t].pc = "m_registry"
    /\ IF PreConfirmed(registry, th[t].id)
       THEN /\ th' = [th EXCEPT ![t].pc = "t_read"]
            /\ registry' = RegistryAdd(registry, th[t].id)
       ELSE /\ Respond(t, 200, "monitored")
            /\ UNCHANGED registry
    /\ UNCHANGED <<db, disk, fs>>

\* ------------------------------------- POST /api/mock-shipping-confirmation
\* mock_shipping_confirmation and trigger_payment, lines 257-267: the id is
\* added to the registry before the status is read.
SignalStart(t, id) ==
    /\ th[t].pc = "idle"
    /\ LET me == [Idle EXCEPT !.op = "signal", !.id = id] IN
       IF id = NoId
       THEN /\ th' = [th EXCEPT ![t] = [me EXCEPT !.pc = "done", !.code = 400,
                                                  !.msg = "id_required"]]
            /\ UNCHANGED registry
       ELSE /\ th' = [th EXCEPT ![t] = [me EXCEPT !.pc = "t_read"]]
            /\ registry' = RegistryAdd(registry, id)
    /\ UNCHANGED <<db, disk, fs>>

\* What trigger_payment's result becomes: mock_shipping_confirmation passes
\* it on, process_invoice (lines 246-250) answers 200 for a 200 and 500 for
\* anything else.
TriggerReturn(op, result) ==
    IF op = "monitor"
    THEN IF result.code = 200
         THEN [code |-> 200, msg |-> "preconfirmed_paid"]
         ELSE [code |-> 500, msg |-> "preconfirmed_failed"]
    ELSE result

\* Lines 268-270 and 297-304: the branch taken for the status read.
\* A plausible slip: an id without an invoice is answered as not found.
TriggerBranchNotFound(current_status) ==
    IF current_status = "MONITORING" THEN [code |-> 0, msg |-> "execute"]
    ELSE IF current_status = "None" THEN [code |-> 404, msg |-> "not_found"]
    ELSE IF current_status = "PAID" THEN [code |-> 200, msg |-> "already_paid"]
    ELSE IF current_status = "EXECUTING" THEN [code |-> 202, msg |-> "in_progress"]
    ELSE [code |-> 200, msg |-> "awaiting_monitoring"]

TriggerBranch(current_status) ==
    IF current_status = "MONITORING" THEN [code |-> 0, msg |-> "execute"]
    ELSE IF current_status = "None" THEN [code |-> 200, msg |-> "awaiting_creation"]
    ELSE IF current_status = "PAID" THEN [code |-> 200, msg |-> "already_paid"]
    ELSE IF current_status = "EXECUTING" THEN [code |-> 202, msg |-> "in_progress"]
    ELSE [code |-> 200, msg |-> "awaiting_monitoring"]

TriggerRead(t) ==
    /\ th[t].pc = "t_read"
    /\ LET current_status == StatusOf(db, th[t].id)
           branch == TriggerBranch(current_status)
           result == TriggerReturn(th[t].op, branch) IN
       th' = [th EXCEPT ![t] =
                IF branch.msg = "execute"
                THEN [@ EXCEPT !.pc = "t_execute", !.cur = current_status]
                ELSE [@ EXCEPT !.pc = "done", !.cur = current_status,
                               !.code = result.code, !.msg = result.msg]]
    /\ UNCHANGED <<db, registry, disk, fs>>

\* Lines 271-273: the status is set to EXECUTING and saved.  The write is
\* outside the try: a record deleted since the read raises KeyError.
SetExecuting(d, id) == [d EXCEPT ![id].status = "EXECUTING"]

TriggerExecute(t) ==
    /\ th[t].pc = "t_execute"
    /\ IF th[t].id \in DOMAIN db
       THEN /\ db' = SetExecuting(db, th[t].id)
            /\ Persist(db')
            /\ th' = [th EXCEPT ![t].pc = "t_payment"]
       ELSE /\ Crash(t, NoAnswer)
            /\ UNCHANGED <<db, disk, fs>>
    /\ UNCHANGED registry

\* Lines 279-295: the record after the Executor's answer.
\*   200: status PAID, then paidAt and transactionHash from the body (.get:
\*        a missing field is None); a body that does not parse raises after
\*        line 281 and the except of line 291 sets MONITORING;
\*   another status, or an exception: MONITORING.
\* Plausible slips: the failure branches leave EXECUTING in place; the success
\* branch stores the status and paidAt but not the transaction hash.
AfterPaymentNoRevert(d, id, response) ==
    IF response.kind = "ok"
    THEN [d EXCEPT ![id].status = "PAID",
                   ![id].paidAt = response.body.paidAt,
                   ![id].transactionHash = response.body.transactionHash]
    ELSE d

AfterPaymentNoHash(d, id, response) ==
    IF response.kind = "ok"
    THEN [d EXCEPT ![id].status = "PAID",
                   ![id].paidAt = response.body.paidAt]
    ELSE [d EXCEPT ![id].status = "MONITORING"]

AfterPayment(d, id, response) ==
    IF response.kind = "ok"
    THEN [d EXCEPT ![id].status = "PAID",
                   ![id].paidAt = response.body.paidAt,
                   ![id].transactionHash = response.body.transactionHash]
    ELSE [d EXCEPT ![id].status = "MONITORING"]

PaymentResult(response) ==
    IF response.kind = "ok" THEN [code |-> 200, msg |-> "payment_triggered"]
    ELSE IF response.kind = "error" THEN [code |-> 500, msg |-> "execution_failed"]
    ELSE [code |-> 500, msg |-> "unexpected_error"]

TriggerPayment(t) ==
    /\ th[t].pc = "t_payment"
    /\ \E response \in TriggerResponses :
         IF th[t].id \in DOMAIN db
         THEN LET result == TriggerReturn(th[t].op, PaymentResult(response)) IN
              /\ db' = AfterPayment(db, th[t].id, response)
              /\ Persist(db')
              /\ RespondTo(t, response, result.code, result.msg)
         ELSE /\ Crash(t, response)
              /\ UNCHANGED <<db, disk, fs>>
    /\ UNCHANGED registry

\* The response is delivered and the thread takes the next request.
Return(t) ==
    /\ th[t].pc = "done"
    /\ th' = [th EXCEPT ![t] = Idle]
    /\ UNCHANGED <<db, registry, disk, fs>>

\* A finished handler's response is delivered before any other thread moves:
\* the delivery touches no shared state, so no interleaving of the handlers'
\* steps is lost.
Ready == \A u \in Threads : th[u].pc # "done"

Next ==
    \E t \in 1..NThreads :
        \/ Ready /\ \E id \in IdInputs, amount \in Amounts : CreateStart(t, id, amount)
        \/ Ready /\ CreateBalance(t)
        \/ Ready /\ CreateOnChain(t)
        \/ Ready /\ \E id \in IdInputs : MonitorStart(t, id)
        \/ Ready /\ MonitorRegistry(t)
        \/ Ready /\ \E id \in IdInputs : SignalStart(t, id)
        \/ Ready /\ TriggerRead(t)
        \/ Ready /\ TriggerExecute(t)
        \/ Ready /\ TriggerPayment(t)
        \/ Return(t)

Spec == Init /\ [][Next]_vars

\* ------------------------------------------------------- sequential requests
\* One request at a time, the way the service is used when no two requests
\* overlap.  Thread t serves request number t and keeps its response, so th is
\* the log of the run.  The requests are about one invoice id.
SeqId == "INV-7"

InitSeq ==
    /\ db = EmptyStore
    /\ registry = {}
    /\ disk = save_database(db)
    /\ th = [t \in 1..NRequests |-> Idle]
    /\ fs = "ok"

Turn(t) ==
    \A u \in Threads : /\ u < t => th[u].pc = "done"
                       /\ u > t => th[u].pc = "idle"

NextSeq ==
    \E t \in 1..NRequests :
        \/ Turn(t) /\ \E amount \in Amounts : CreateStart(t, SeqId, amount)
        \/ Turn(t) /\ CreateBalance(t)
        \/ Turn(t) /\ CreateOnChain(t)
        \/ Turn(t) /\ MonitorStart(t, SeqId)
        \/ Turn(t) /\ MonitorRegistry(t)
        \/ Turn(t) /\ SignalStart(t, SeqId)
        \/ Turn(t) /\ TriggerRead(t)
        \/ Turn(t) /\ TriggerExecute(t)
        \/ Turn(t) /\ TriggerPayment(t)

SpecSeq == InitSeq /\ [][NextSeq]_vars

\* ------------------------------------------------- an Executor that is silent
\* Line 277: requests.post is called without a timeout, so a trigger call the
\* Executor never answers never returns: the handler stays in the call.
ExecutorSilent(t) ==
    /\ th[t].pc = "t_payment"
    /\ th' = [th EXCEPT ![t].pc = "t_blocked"]
    /\ UNCHANGED <<db, registry, disk, fs>>

NextLive == Next \/ \E t \in 1..NThreads : Ready /\ ExecutorSilent(t)

\* What a thread does once it has a request: the server runs every handler
\* that can take a step; whether requests arrive is up to the clients.  A
\* handler's step waits only while a response is being delivered (Ready), so
\* it can be taken again and again: the fairness is strong.
HandlerRuns(t) ==
    \/ Ready /\ (CreateBalance(t) \/ CreateOnChain(t) \/ MonitorRegistry(t)
                   \/ TriggerRead(t) \/ TriggerExecute(t)
                   \/ TriggerPayment(t) \/ ExecutorSilent(t))
    \/ Return(t)

SpecLive ==
    Init /\ [][NextLive]_vars /\ \A t \in 1..NThreads : SF_vars(HandlerRuns(t))

\* ------------------------------------------- the solvency guard on its own
\* One creation request, for every amount from 0.0 to MaxTenths / 10 USDC and
\* every answer to the balance request up to a tenth above that.
GuardAmounts == 0..MaxTenths
GuardResponses == {BalanceFailed} \cup 0..(MaxTenths + 1)

InitGuard ==
    /\ db = EmptyStore
    /\ registry = {}
    /\ disk = save_database(db)
    /\ th = [t \in {1} |-> Idle]
    /\ fs = "ok"

NextGuard ==
    \/ \E amount \in GuardAmounts : CreateStart(1, "INV-1", amount)
    \/ \E response \in GuardResponses : CreateBalanceGiven(1, response)

SpecGuard == InitGuard /\ [][NextGuard]_vars

\* -------------------------------------- restarts and a file system that fails
\* The file system starts to refuse writes (a full disk, the directory of
\* DB_FILE removed).
DiskFault ==
    /\ fs = "ok"
    /\ fs' = "down"
    /\ UNCHANGED <<db, registry, disk, th>>

\* The process is stopped and started again, lines 306-309: load_database
\* reads DB_FILE, the registry starts empty, and a request that was being
\* handled never gets its response.
Restart ==
    /\ db' = load_database(disk)
    /\ registry' = {}
    /\ th' = [t \in Threads |->
                IF th[t].pc \in {"idle", "done"} THEN th[t]
                ELSE [th[t] EXCEPT !.pc = "done", !.code = 0, !.msg = "killed"]]
    /\ UNCHANGED <<disk, fs>>

\* Sequential requests, with restarts between or during them.
NextRestart == NextSeq \/ Restart

SpecRestart == InitSeq /\ [][NextRestart]_vars

\* No request is being handled.
Quiescent == \A t \in Threads : th[t].pc \in {"idle", "done"}

\* Sequential requests with the voice flow among them; between two requests
\* the service may be restarted and the file system may start to fail.
VoiceRequest ==
    \E t \in 1..NRequests :
        \/ Turn(t) /\ \E audio \in BOOLEAN : VoiceStart(t, audio)
        \/ Turn(t) /\ VoiceDraw(t)
        \/ Turn(t) /\ VoiceCreate(t)

NextDurable ==
    \/ NextSeq
    \/ VoiceRequest
    \/ Quiescent /\ DiskFault
    \/ Quiescent /\ Restart

SpecDurable == InitSeq /\ [][NextDurable]_vars

\* ------------------------------------------------- voice creations alone
\* Voice requests handled by the server's threads, overlapping or not.  The
\* server runs every handler that can take a step (a draw that finds its id
\* in the store changes nothing and is not such a step).
NextVoice ==
    \E t \in 1..NThreads :
        \/ Ready /\ \E audio \in BOOLEAN : VoiceStart(t, audio)
        \/ Ready /\ VoiceDraw(t)
        \/ Ready /\ VoiceCreate(t)
        \/ Ready /\ CreateBalance(t)
        \/ Ready /\ CreateOnChain(t)
        \/ Return(t)

VoiceRuns(t) ==
    \/ Ready /\ (VoiceDraw(t) \/ VoiceCreate(t) \/ CreateBalance(t)
                   \/ CreateOnChain(t))
    \/ Return(t)

SpecVoice ==
    Init /\ [][NextVoice]_vars /\ \A t \in 1..NThreads : SF_vars(VoiceRuns(t))

\* ------------------------------------------- one invoice, an accepting Executor
\* The three operations of an invoice, each issued once per id: CreateInvoice,
\* BeginMonitoring once the creation has returned, and the condition signal at
\* any moment, overlapping the other two or not.  The Executor reports enough
\* funds and accepts the create and the trigger call.
InFlight(id) == \E u \in Threads : th[u].id = id /\ th[u].pc \notin {"idle", "done"}

StartAllowed(op, id) ==
    /\ id \in Ids
    /\ op = "create" => id \notin DOMAIN db /\ \A u \in Threads :
                            ~(th[u].op = "create" /\ th[u].id = id)
    /\ op = "monitor" => /\ StatusOf(db, id) = "Pending"
                         /\ \A u \in Threads : ~(th[u].op = "create" /\ th[u].id = id)
    /\ op = "signal" => id \notin registry

Accepts(response) == response.kind \in {"none", "created", "ok"}

Script ==
    \A t \in Threads :
        /\ th[t].pc = "idle" /\ th'[t].pc # "idle" => StartAllowed(th'[t].op, th'[t].id)
        /\ th[t].pc # "done" /\ th'[t].pc = "done" =>
               Accepts(th'[t].resp) /\ th'[t].code # 402

NextOrder == Next /\ Script

SpecOrder == Init /\ [][NextOrder]_vars

\* ==================================================================== claims

\* C1: at most one Trigger at a time has issued the remote trigger-payment
\* call for an invoice id: concurrent Trigger calls on a MONITORING id result
\* in one remote call, the other callers observe EXECUTING or PAID.
C1_OneRemoteTrigger ==
    \A t, u \in Threads :
        (th[t].pc = "t_payment" /\ th[u].pc = "t_payment" /\ th[t].id = th[u].id)
            => t = u

\* C2: every change of an invoice's status is Pending -> MONITORING,
\* MONITORING -> EXECUTING, EXECUTING -> PAID or EXECUTING -> MONITORING.
StatusEdges ==
    { <<"Pending", "MONITORING">>, <<"MONITORING", "EXECUTING">>,
      <<"EXECUTING", "PAID">>, <<"EXECUTING", "MONITORING">> }

C2_StatusEdges ==
    [][\A id \in DOMAIN db \cap DOMAIN db' :
          db'[id].status # db[id].status
              => <<db[id].status, db'[id].status>> \in StatusEdges]_vars

\* C3: PAID is terminal: a PAID record is never changed or removed by a later
\* step, and a Trigger that reads PAID answers 200 "already paid".
C3_PaidTerminal ==
    [][/\ \A id \in DOMAIN db :
             db[id].status = "PAID" => id \in DOMAIN db' /\ db'[id] = db[id]
       /\ \A t \in Threads :
             (th[t].pc = "t_read" /\ th'[t].pc # "t_read"
                /\ StatusOf(db, th[t].id) = "PAID")
                 => th'[t].pc = "done" /\ th'[t].code = 200]_vars

\* C4: in every state and for every stored invoice, transactionHash is set iff
\* paidAt is set iff the status is PAID.
C4_PaidFields ==
    \A id \in DOMAIN db :
        /\ (db[id].transactionHash # Null) <=> (db[id].paidAt # Null)
        /\ (db[id].transactionHash # Null) <=> (db[id].status = "PAID")

\* C7: a CreateInvoice never writes a record for an id that is present in the
\* store, also when two CreateInvoice calls for the same id overlap: the call
\* that finds the id present ends in 409 and leaves the store unchanged.
C7_NoDuplicateInsert ==
    [][\A t \in Threads :
          (th[t].op = "create" /\ th[t].pc = "c_balance" /\ th'[t].pc # "c_balance"
             /\ th[t].id \in DOMAIN db)
              => db' = db /\ th'[t].code = 409]_vars

\* C8: when the solvency guard reports not solvent, CreateInvoice answers 402
\* insufficient funds in that step, inserts no record (the store and the file
\* are unchanged) and makes no remote create call.
C8_InsufficientFunds ==
    [][\A t \in Threads :
          (th[t].pc = "c_balance" /\ th'[t].pc # "c_balance"
             /\ ~check_backend_balance(th[t].amt, th'[t].bal).solvent)
              => /\ th'[t].pc = "done"
                 /\ th'[t].code = 402
                 /\ db' = db
                 /\ disk' = disk]_vars

C8_Witness ==
    \E t \in Threads :
        /\ th[t].pc = "done" /\ th[t].op = "create" /\ th[t].code = 402
        /\ th[t].bal = 10 /\ th[t].amt = 10
        /\ th[t].id \notin DOMAIN db

\* C9: when the remote create call fails after the pre-check passed,
\* CreateInvoice answers a failure and the id is absent from the store and
\* from the listing, every other record unchanged.
C9_CreationRollback ==
    [][\A t \in Threads :
          (th[t].pc = "c_onchain" /\ th'[t].pc = "done"
             /\ th'[t].resp.kind # "created")
              => /\ th'[t].code = 500
                 /\ th[t].id \notin DOMAIN db'
                 /\ DOMAIN db' = DOMAIN db \ {th[t].id}
                 /\ \A i \in DOMAIN db' : db'[i] = db[i]]_vars

C9_Witness ==
    \E t \in Threads :
        /\ th[t].pc = "done" /\ th[t].op = "create" /\ th[t].code = 500
        /\ th[t].resp.kind = "error"
        /\ th[t].id \notin get_payment_status
        /\ get_payment_status # {}

\* C5: order independence.  With an accepting Executor, once CreateInvoice,
\* BeginMonitoring and the condition signal of an id have all completed, in
\* whatever order or overlap the signal came, the invoice is PAID.
AllCompleted(id) ==
    /\ id \in DOMAIN db
    /\ db[id].status # "Pending"
    /\ id \in registry
    /\ ~InFlight(id)

C5_OrderIndependence ==
    \A id \in Ids : AllCompleted(id) => db[id].status = "PAID"

\* The signal came before monitoring began: BeginMonitoring itself paid.
C5_Witness ==
    \E t \in Threads :
        /\ th[t].pc = "done" /\ th[t].op = "monitor" /\ th[t].resp.kind = "ok"
        /\ AllCompleted(th[t].id)
        /\ db[th[t].id].status = "PAID"

\* C6: end to end.  Requests 1, 2, 3 of a sequential run are CreateInvoice,
\* BeginMonitoring and the condition signal of one id; the balance reported
\* covers the amount and the buffer and the Executor refuses none of its
\* calls: the invoice ends PAID with a transaction hash, and stays so.
Refuses(response) ==
    \/ response.kind \in {"insufficient_balance", "error", "exception", "ok_unparseable"}
    \/ response.kind = "ok" /\ response.body.transactionHash = Null

EndToEndRun ==
    /\ \A r \in 1..3 : th[r].pc = "done" /\ th[r].id = SeqId /\ ~Refuses(th[r].resp)
    /\ th[1].op = "create" /\ th[2].op = "monitor" /\ th[3].op = "signal"
    /\ th[1].bal # BalanceFailed
    /\ th[1].bal >= th[1].amt + ReserveBuffer

C6_EndToEnd ==
    EndToEndRun =>
        /\ SeqId \in DOMAIN db
        /\ db[SeqId].status = "PAID"
        /\ db[SeqId].transactionHash # Null
        /\ th[3].code = 200

C6_Witness ==
    /\ EndToEndRun
    /\ th[1].code = 201 /\ th[2].msg = "monitored" /\ th[3].msg = "payment_triggered"
    /\ db[SeqId].status = "PAID"
    /\ db[SeqId].transactionHash = "0xh1"

\* C10: a failure of the remote trigger-payment call (an error response or an
\* exception) that finds the invoice as the MONITORING -> EXECUTING edge left
\* it returns it to MONITORING with transactionHash and paidAt still null and
\* answers 500; a Trigger that then reads the status takes the MONITORING
\* branch again, and from there issues the remote call.
RemoteFailure(response) == response.kind \in {"error", "exception"}

C10_FailureRetryable ==
    [][\A t \in Threads :
          /\ (/\ th[t].pc = "t_payment" /\ th'[t].pc = "done"
              /\ RemoteFailure(th'[t].resp)
              /\ StatusOf(db, th[t].id) = "EXECUTING"
              /\ db[th[t].id].transactionHash = Null
              /\ db[th[t].id].paidAt = Null)
                 => /\ db' = [db EXCEPT ![th[t].id].status = "MONITORING"]
                    /\ db'[th[t].id].transactionHash = Null
                    /\ db'[th[t].id].paidAt = Null
                    /\ th'[t].code = 500
                    /\ TriggerBranch(StatusOf(db', th[t].id)).msg = "execute"
          /\ (/\ th[t].pc = "t_read" /\ th'[t].pc # "t_read"
              /\ StatusOf(db, th[t].id) = "MONITORING")
                 => th'[t].pc = "t_execute"
          /\ (/\ th[t].pc = "t_execute" /\ th'[t].pc # "t_execute"
              /\ th[t].id \in DOMAIN db)
                 => th'[t].pc = "t_payment" /\ db'[th[t].id].status = "EXECUTING"]_vars

C10_Witness ==
    \E t \in Threads :
        /\ th[t].pc = "done" /\ th[t].op = "signal" /\ th[t].code = 500
        /\ th[t].cur = "MONITORING" /\ RemoteFailure(th[t].resp)
        /\ StatusOf(db, th[t].id) = "MONITORING"
        /\ db[th[t].id].transactionHash = Null
        /\ db[th[t].id].paidAt = Null

\* C11: every Trigger with a non-empty id adds the id to the registry before
\* it reads the invoice status, whether or not an invoice with that id exists
\* and whatever its status; the registry only grows: no step removes an id.
C11_RegistryFirst ==
    [][/\ registry \subseteq registry'
       /\ \A t \in Threads :
             /\ (th[t].pc # "t_read" /\ th'[t].pc = "t_read")
                    => th'[t].id # NoId /\ th'[t].id \in registry'
             /\ (th[t].pc = "t_read" /\ th'[t].pc # "t_read")
                    => th[t].id \in registry /\ th[t].id \in registry'
             /\ (th[t].pc = "idle" /\ th'[t].pc # "idle"
                   /\ th'[t].op = "signal" /\ th'[t].id # NoId)
                    => th'[t].pc = "t_read"]_vars

\* A signal for an id without an invoice is about to read the status, its id
\* in the registry beside the id of an earlier signal.
C11_Witness ==
    \E t \in Threads :
        /\ th[t].pc = "t_read" /\ th[t].op = "signal"
        /\ th[t].id \notin DOMAIN db
        /\ registry = Ids

\* C12: BeginMonitoring answers 404 and changes nothing when the id is absent
\* from the store; it sets a Pending invoice to MONITORING; on an invoice that
\* is MONITORING, EXECUTING or PAID it changes no record, and with the id not
\* in the registry it answers without a remote call.
C12_BeginMonitoring ==
    [][\A t \in Threads :
          /\ (th[t].pc = "idle" /\ th'[t].pc # "idle" /\ th'[t].op = "monitor"
                /\ th'[t].id # NoId)
                 => LET id == th'[t].id IN
                    /\ id \notin DOMAIN db
                          => /\ th'[t].pc = "done" /\ th'[t].code = 404
                             /\ db' = db /\ disk' = disk /\ registry' = registry
                    /\ StatusOf(db, id) = "Pending"
                          => db' = [db EXCEPT ![id].status = "MONITORING"]
                    /\ StatusOf(db, id) \in {"MONITORING", "EXECUTING", "PAID"}
                          => db' = db /\ disk' = disk /\ th'[t].pc = "m_registry"
          /\ (th[t].pc = "m_registry" /\ th'[t].pc # "m_registry"
                /\ th[t].id \notin registry /\ th'[t].msg # "killed")
                 => /\ th'[t].pc = "done" /\ th'[t].code = 200
                    /\ db' = db /\ disk' = disk]_vars

\* The last request so far was a BeginMonitoring of a PAID invoice whose id
\* is not in the registry (the service was restarted after the payment).
C12_Witness ==
    \E t \in Threads :
        /\ th[t].pc = "done" /\ th[t].op = "monitor" /\ th[t].msg = "monitored"
        /\ \A u \in Threads : u > t => th[u].pc = "idle"
        /\ StatusOf(db, th[t].id) = "PAID"
        /\ th[t].id \notin registry
        /\ fs = "ok"

\* C13: pre-confirmed release.  Request r of a sequential run is a
\* BeginMonitoring of an invoice that is Pending (no BeginMonitoring reached
\* it before) and whose id an earlier condition signal put in the registry;
\* the Executor does not refuse the trigger call.  Then r itself runs the
\* Trigger: when it has returned the invoice is PAID and r answered 200, with
\* no further signal.
PreConfirmedRun(r) ==
    /\ th[r].pc = "done" /\ th[r].op = "monitor" /\ th[r].code # 404
    /\ \E q \in Threads : q < r /\ th[q].op = "signal"
    /\ \A q \in Threads : (q < r /\ th[q].op = "monitor") => th[q].code = 404
    /\ Accepts(th[r].resp)

C13_PreConfirmedRelease ==
    \A r \in Threads :
        PreConfirmedRun(r) =>
            /\ StatusOf(db, SeqId) = "PAID"
            /\ th[r].code = 200 /\ th[r].msg = "preconfirmed_paid"
            /\ th[r].resp.kind = "ok"

\* The signal came first, then the creation, then BeginMonitoring, which paid.
C13_Witness ==
    /\ th[1].op = "signal" /\ th[1].msg = "awaiting_creation"
    /\ th[2].op = "create" /\ th[2].code = 201
    /\ PreConfirmedRun(3)
    /\ th[4].pc = "idle"
    /\ db[SeqId].status = "PAID" /\ db[SeqId].transactionHash = "0xh1"

\* C14: a remote trigger-payment call for an id is issued only by a Trigger
\* that takes the MONITORING -> EXECUTING edge of that id; a Trigger that
\* finds the invoice absent, Pending, EXECUTING or PAID issues no remote call
\* and leaves every record unchanged (its id is in the registry).
C14_OnlyMonitoringEdge ==
    [][\A t \in Threads :
          /\ (th[t].pc # "t_payment" /\ th'[t].pc = "t_payment")
                 => /\ StatusOf(db, th[t].id) = "MONITORING"
                    /\ StatusOf(db', th[t].id) = "EXECUTING"
          /\ (th[t].pc = "t_read" /\ th'[t].pc # "t_read"
                /\ StatusOf(db, th[t].id) # "MONITORING")
                 => /\ th'[t].pc = "done"
                    /\ db' = db
                    /\ th[t].id \in registry']_vars

\* C15: a condition signal for a non-empty id without an invoice record does
\* not fail: it answers 200 "recorded, waiting for invoice creation", the id
\* is in the registry and the store and the file are unchanged.
C15_UnknownIdRecorded ==
    [][\A t \in Threads :
          (th[t].op = "signal" /\ th[t].pc = "t_read" /\ th'[t].pc # "t_read"
             /\ th[t].id \notin DOMAIN db)
              => /\ th'[t].pc = "done"
                 /\ th'[t].code = 200 /\ th'[t].msg = "awaiting_creation"
                 /\ th[t].id \in registry'
                 /\ db' = db /\ disk' = disk]_vars

\* Answered while another invoice is in the store.
C15_Witness ==
    \E t \in Threads :
        /\ th[t].pc = "done" /\ th[t].op = "signal"
        /\ th[t].code = 200 /\ th[t].msg = "awaiting_creation"
        /\ th[t].id \notin DOMAIN db /\ th[t].id \in registry
        /\ db # EmptyStore

\* C16: the solvency guard reports solvent exactly when the balance request
\* succeeded and balance >= amount + 0.1, for every balance and amount; it
\* hands back the balance it observed, and 0 with not solvent when the
\* request failed.
C16_SolvencyExact ==
    \A t \in Threads :
        th[t].pc \in {"c_onchain", "done"} =>
            LET chk == check_backend_balance(th[t].amt, th[t].bal) IN
            /\ (th[t].pc = "c_onchain")
                   <=> (th[t].bal # BalanceFailed
                          /\ th[t].bal >= th[t].amt + ReserveBuffer)
            /\ chk.balance = IF th[t].bal = BalanceFailed THEN 0 ELSE th[t].bal
            /\ th[t].bal = BalanceFailed => ~chk.solvent

\* C17: CreateInvoice reports insufficient funds as an outcome of its own,
\* 402, apart from the 500 of a general Executor failure, in both cases: the
\* pre-check reports not solvent, and the pre-check passes but the remote
\* create call fails naming INSUFFICIENT_BALANCE.
PreCheckFailed(t) ==
    /\ th[t].resp.kind = "none"
    /\ th[t].msg \notin {"id_required", "exists"}
    /\ ~check_backend_balance(th[t].amt, th[t].bal).solvent

C17_InsufficientFundsOutcome ==
    \A t \in Threads :
        (th[t].pc = "done" /\ th[t].op = "create") =>
            /\ (PreCheckFailed(t) \/ th[t].resp.kind = "insufficient_balance")
                   => th[t].code = 402
            /\ th[t].resp.kind \in {"error", "exception"} => th[t].code = 500

\* C18: every mutation of the invoice map is followed by a persist of the
\* whole map before the operation returns: while no persist has failed the
\* file holds the map, so with no operation in progress a restart restores
\* exactly the records there were; a persist that fails leaves the change of
\* the in-memory map in place.
HandlerStep == \E t \in Threads : th'[t].pc # th[t].pc /\ th'[t].msg # "killed"

C18_PersistAfterMutation ==
    [][/\ (Quiescent /\ fs # "lost") => load_database(disk) = db
       /\ (Quiescent' /\ fs' # "lost") => load_database(disk') = db'
       /\ (HandlerStep /\ db' # db /\ fs = "ok")
              => disk' = save_database(db') /\ load_database(disk') = db'
       /\ (HandlerStep /\ db' # db /\ fs # "ok")
              => fs' = "lost" /\ disk' \in {disk, Corrupt}
       /\ (HandlerStep /\ db' = db) => disk' = disk
       /\ (th' = th /\ fs' = fs /\ fs # "lost") => db' = db]_vars

\* C19: EXECUTING is transient: an invoice that is EXECUTING eventually is
\* PAID or MONITORING again, whatever the Executor does, also when it never
\* answers the trigger call.
C19_ExecutingTransient ==
    \A id \in Ids :
        (StatusOf(db, id) = "EXECUTING") ~> (StatusOf(db, id) # "EXECUTING")

\* C20: whenever the remote trigger-payment call answers 200, whatever the
\* body (fields missing, or a body that does not parse), the Trigger that
\* issued it leaves the invoice PAID and reports success; a payment the
\* Executor accepted is not left recorded as MONITORING.
AnsweredSuccess(response) == response.kind \in {"ok", "ok_unparseable"}

C20_SuccessEndsPaid ==
    \A r \in Threads :
        (th[r].pc = "done" /\ AnsweredSuccess(th[r].resp)) =>
            /\ StatusOf(db, th[r].id) = "PAID"
            /\ th[r].code = 200

\* C21: payment is gated on both events.  An invoice that is EXECUTING or
\* PAID has its id in the registry and was moved to MONITORING by
\* BeginMonitoring before: a record becomes EXECUTING or PAID only from
\* MONITORING, and MONITORING only by a BeginMonitoring of the Pending record
\* (or back from EXECUTING or PAID); none is paid on creation or on a signal
\* alone.
Released(d, id) == StatusOf(d, id) \in {"EXECUTING", "PAID"}

C21_PaymentGated ==
    [][\A id \in Ids :
          /\ Released(db', id) => id \in registry'
          /\ (Released(db', id) /\ ~Released(db, id))
                 => StatusOf(db, id) = "MONITORING"
          /\ (StatusOf(db', id) = "MONITORING" /\ ~Released(db, id)
                /\ StatusOf(db, id) # "MONITORING")
                 => /\ StatusOf(db, id) = "Pending"
                    /\ \E t \in Threads :
                          /\ th[t].pc = "idle" /\ th'[t].op = "monitor"
                          /\ th'[t].id = id]_vars

\* C22: the rollback of a failed CreateInvoice removes only a record that is
\* still Pending, under any interleaving with BeginMonitoring, Trigger and
\* other CreateInvoice calls on the same id: no MONITORING, EXECUTING or PAID
\* record is ever deleted from the store, and the rollback never raises
\* because the record is already gone.
C22_RollbackOnlyPending ==
    [][/\ \A id \in DOMAIN db \ DOMAIN db' : db[id].status = "Pending"
       /\ \A t \in Threads :
             (th[t].pc = "c_onchain" /\ th'[t].pc = "done")
                => th'[t].msg # "unhandled_exception"]_vars

\* C23: the voice creation flow always terminates, whatever the store holds
\* (also when it holds every id of the generator's range), and hands
\* CreateInvoice an id that is absent from the store at that moment, so that
\* no voice creation ends in a duplicate-id conflict.
VoiceTerminates ==
    \A t \in 1..NThreads :
        (th[t].op = "voice" /\ th[t].pc = "v_draw") ~> (th[t].pc = "done")

VoiceNoConflict ==
    \A t \in Threads :
        (th[t].op = "voice" /\ th[t].pc = "done") => th[t].code # 409

C23_VoiceCreation == VoiceTerminates /\ []VoiceNoConflict

\* ------------------------ the older status-only service, src/ai-agent/agent.py
\* The older service keeps no records and no file: invoice_registry maps an id
\* to its status and shipping_confirmation_registry is a set of ids.  Here db
\* holds invoice_registry and registry holds shipping_confirmation_registry;
\* disk and fs are not used.
OrderIds == {"991", "992"}

\* temp_id = f"temp_{len(invoice_registry)}", line 199
TempId(n) ==
    CASE n = 0 -> "temp_0" [] n = 1 -> "temp_1" [] n = 2 -> "temp_2"
      [] n = 3 -> "temp_3" [] n = 4 -> "temp_4" [] OTHER -> "temp_5"

StatusIdle == [pc |-> "idle", op |-> "-", id |-> NoId, temp |-> NoId,
               code |-> 0, msg |-> "-"]

\* invoice_registry.get(invoice_id)
invoice_registry_get(d, id) == IF id \in DOMAIN d THEN d[id] ELSE "None"

InitStatusOnly ==
    /\ db = EmptyStore
    /\ registry = {}
    /\ disk = save_database(db)
    /\ th = [t \in 1..NThreads |-> StatusIdle]
    /\ fs = "ok"

\* What the speech-to-text call of line 208 can give: a text, an empty text,
\* an UnprocessableEntityError, another exception.
SpeechResults == {"text", "empty", "unprocessable", "error"}

\* What extract_invoice_id_from_text returns: the digits of an id, or None.
ExtractResults == OrderIds \cup {NoId}

\* What POST /api/trigger-payment can answer to execute_payment.
BackendResults == {"ok", "error", "exception"}

\* transcribe_audio, lines 192-200: a request without an audio file is
\* answered 400; otherwise a temporary entry is put in the registry.
TranscribeStart(t, audio) ==
    /\ th[t].pc = "idle"
    /\ LET me == [StatusIdle EXCEPT !.op = "transcribe"]
           temp_id == TempId(Cardinality(DOMAIN db)) IN
       IF ~audio
       THEN /\ th' = [th EXCEPT ![t] = [me EXCEPT !.pc = "done", !.code = 400,
                                                  !.msg = "no_audio"]]
            /\ UNCHANGED db
       ELSE /\ th' = [th EXCEPT ![t] = [me EXCEPT !.pc = "s_speech",
                                                  !.temp = temp_id]]
            /\ db' = Insert(db, temp_id, "PROCESSING")
    /\ UNCHANGED <<registry, disk, fs>>

\* Lines 203-218 and 271-278: the speech-to-text call returns.  An empty text
\* deletes the temporary entry (line 215; when the entry is gone the KeyError
\* is caught at line 275) and is answered 400; an exception deletes the entry
\* if it is there and is answered 422 or 500.
TranscribeSpeech(t) ==
    /\ th[t].pc = "s_speech"
    /\ \E result \in SpeechResults :
         LET temp_id == th[t].temp IN
         IF result = "text"
         THEN /\ th' = [th EXCEPT ![t].pc = "s_extract"]
              /\ UNCHANGED db
         ELSE IF temp_id \notin DOMAIN db
         THEN /\ Respond(t, IF result = "unprocessable" THEN 422 ELSE 500,
                         "unexpected_error")
              /\ UNCHANGED db
         ELSE /\ db' = Delete(db, temp_id)
              /\ Respond(t, IF result = "empty" THEN 400
                            ELSE IF result = "unprocessable" THEN 422 ELSE 500,
                         result)
    /\ UNCHANGED <<registry, disk, fs>>

\* Lines 221-241 and 261: the extraction returns and the temporary entry is
\* deleted (line 222; KeyError when it is gone, caught at line 275); no id is
\* answered 400 and an id that is PAID 200; an id in the shipping registry
\* goes on to execute_payment, any other to the write of line 262.
TranscribeExtract(t) ==
    /\ th[t].pc = "s_extract"
    /\ \E invoice_id \in ExtractResults :
         IF th[t].temp \notin DOMAIN db
         THEN /\ Respond(t, 500, "unexpected_error")
              /\ UNCHANGED db
         ELSE /\ db' = Delete(db, th[t].temp)
              /\ th' = [th EXCEPT ![t] =
                   IF invoice_id = NoId
                   THEN [@ EXCEPT !.pc = "done", !.code = 400, !.msg = "no_invoice_id"]
                   ELSE IF invoice_registry_get(db', invoice_id) = "PAID"
                   THEN [@ EXCEPT !.pc = "done", !.id = invoice_id, !.code = 200,
                                  !.msg = "already_paid"]
                   ELSE IF invoice_id \in registry
                   THEN [@ EXCEPT !.pc = "x_execute", !.id = invoice_id]
                   ELSE [@ EXCEPT !.pc = "s_monitor", !.id = invoice_id]]
    /\ UNCHANGED <<registry, disk, fs>>

\* Lines 262-269: the status is set to MONITORING, whatever it was.
TranscribeMonitor(t) ==
    /\ th[t].pc = "s_monitor"
    /\ db' = Insert(db, th[t].id, "MONITORING")
    /\ Respond(t, 201, "monitoring")
    /\ UNCHANGED <<registry, disk, fs>>

\* mock_shipping_confirmation, lines 290-299: the id is added to the shipping
\* registry.
ShippingStart(t, id) ==
    /\ th[t].pc = "idle"
    /\ LET me == [StatusIdle EXCEPT !.op = "shipping", !.id = id] IN
       th' = [th EXCEPT ![t] =
                IF id = NoId
                THEN [me EXCEPT !.pc = "done", !.code = 400, !.msg = "id_required"]
                ELSE [me EXCEPT !.pc = "h_read"]]
    /\ registry' = IF id = NoId THEN registry ELSE RegistryAdd(registry, id)
    /\ UNCHANGED <<db, disk, fs>>

\* Lines 302-346: the status is read; MONITORING goes on to execute_payment
\* (after the print of line 306), every other status is answered.
ShippingRead(t) ==
    /\ th[t].pc = "h_read"
    /\ LET current_state == invoice_registry_get(db, th[t].id) IN
       th' = [th EXCEPT ![t] =
                IF current_state = "MONITORING" THEN [@ EXCEPT !.pc = "x_execute"]
                ELSE IF current_state = "None"
                THEN [@ EXCEPT !.pc = "done", !.code = 200, !.msg = "recorded"]
                ELSE IF current_state = "PAID"
                THEN [@ EXCEPT !.pc = "done", !.code = 200, !.msg = "already_paid"]
                ELSE IF current_state = "EXECUTING"
                THEN [@ EXCEPT !.pc = "done", !.code = 202, !.msg = "in_progress"]
                ELSE [@ EXCEPT !.pc = "done", !.code = 409, !.msg = "non_standard"]]
    /\ UNCHANGED <<db, registry, disk, fs>>

\* execute_payment, lines 118-129: a PAID invoice returns True; any other
\* status, EXECUTING included, is set to EXECUTING and the backend is called.
execute_payment(t) ==
    /\ th[t].pc = "x_execute"
    /\ IF invoice_registry_get(db, th[t].id) = "PAID"
       THEN /\ Respond(t, 200, "already_paid")
            /\ UNCHANGED db
       ELSE /\ db' = Insert(db, th[t].id, "EXECUTING")
            /\ th' = [th EXCEPT ![t].pc = "x_post"]
    /\ UNCHANGED <<registry, disk, fs>>

\* Lines 131-150 and the callers' returns: a 200 sets PAID, any other answer
\* or an exception sets MONITORING.
ExecutePaymentAnswer(t) ==
    /\ th[t].pc = "x_post"
    /\ \E result \in BackendResults :
         IF result = "ok"
         THEN /\ db' = Insert(db, th[t].id, "PAID")
              /\ Respond(t, 200, "paid")
         ELSE /\ db' = Insert(db, th[t].id, "MONITORING")
              /\ Respond(t, 500, "payment_failed")
    /\ UNCHANGED <<registry, disk, fs>>

StatusOnlyReturn(t) ==
    /\ th[t].pc = "done"
    /\ th' = [th EXCEPT ![t] = StatusIdle]
    /\ UNCHANGED <<db, registry, disk, fs>>

NextStatusOnly ==
    \E t \in 1..NThreads :
        \/ Ready /\ \E audio \in BOOLEAN : TranscribeStart(t, audio)
        \/ Ready /\ TranscribeSpeech(t)
        \/ Ready /\ TranscribeExtract(t)
        \/ Ready /\ TranscribeMonitor(t)
        \/ Ready /\ \E id \in ExtractResults : ShippingStart(t, id)
        \/ Ready /\ ShippingRead(t)
        \/ Ready /\ execute_payment(t)
        \/ Ready /\ ExecutePaymentAnswer(t)
        \/ StatusOnlyReturn(t)

SpecStatusOnly == InitStatusOnly /\ [][NextStatusOnly]_vars

\* C24: in the older status-only service, under every interleaving of voice
\* creations and shipping confirmations, the backend payment request is sent
\* only for an id in the shipping confirmation registry, at most one payment
\* request for an id is in flight at a time, and at most one succeeds: an
\* invoice is paid at most once and never leaves PAID.
PaymentInFlight(id) == { t \in Threads : th[t].pc = "x_post" /\ th[t].id = id }

PaymentSucceeds(t) ==
    th[t].pc = "x_post" /\ th'[t].pc = "done" /\ th'[t].code = 200

C24_PaidAtMostOnce ==
    /\ [](\A id \in OrderIds :
            /\ PaymentInFlight(id) # {} => id \in registry
            /\ Cardinality(PaymentInFlight(id)) <= 1)
    /\ [][\A id \in OrderIds :
            /\ invoice_registry_get(db, id) = "PAID"
                 => invoice_registry_get(db', id) = "PAID"
            /\ \A t \in Threads :
                 (PaymentSucceeds(t) /\ th[t].id = id)
                    => invoice_registry_get(db, id) # "PAID"]_vars

=============================================================================
